---- MODULE Spec2Model ----
(***************************************************************************)
(* State machine of StandardBloomFilter<T> (src/src/lib.rs).               *)
(*                                                                         *)
(* Scaling.  u64 values are WordBits wide and all u64 arithmetic wraps     *)
(* modulo TwoW = 2^WordBits.  An f64 is a record [nan, milli]: either NaN  *)
(* or a value in thousandths; f64::ln is tabulated in thousandths for the  *)
(* sampled rates.  DefaultHasher (SipHash) is a keyed state v: U64 that    *)
(* absorbs an item by a fixed mixing step; the key drawn by                *)
(* RandomState::new() is a nondeterministic choice.  bit_vec::BitVec is a  *)
(* sequence of BOOLEAN, bit i of the BitVec being element i + 1.           *)
(***************************************************************************)
EXTENDS Integers, Sequences, FiniteSets, TLC

\* ---------------------------------------------------------------- bounds
WordBits == 2
NumItems == 2
MaxItemsCount == 1

TwoW == 2 ^ WordBits
U64 == 0 .. (TwoW - 1)
Items == 0 .. (NumItems - 1)
ItemsCounts == 0 .. MaxItemsCount

\* ---------------------------------------------------------------- f64
F64(milli) == [nan |-> FALSE, milli |-> milli]
NaN == [nan |-> TRUE, milli |-> 0]

\* a > b and a < b on f64: every comparison with NaN is false
FpGt(a, b) == ~a.nan /\ ~b.nan /\ a.milli > b.milli
FpLt(a, b) == ~a.nan /\ ~b.nan /\ a.milli < b.milli

\* the fp_rate arguments tried: -0.5, 0.0, 0.1, 0.25, 0.5, 0.999, 1.0, 1.5, NaN
FpRates ==
    {F64(0 - 500), F64(0), F64(100), F64(250), F64(500), F64(999),
     F64(1000), F64(1500), NaN}

\* core::f64::consts::LN_2 = 0.693147..., in thousandths
LN_2 == 693

\* f64::ln in thousandths, rounded to nearest, on the positive sampled rates
Ln(x) ==
    CASE x.milli = 100 -> 0 - 2303
      [] x.milli = 250 -> 0 - 1386
      [] x.milli = 500 -> 0 - 693
      [] x.milli = 999 -> 0 - 1
      [] x.milli = 1000 -> 0
      [] x.milli = 1500 -> 405

\* f64::ceil of the quotient a / b, b > 0
CeilDiv(a, b) == 0 - ((0 - a) \div b)

\* `as usize` / `as u32` of an f64: negative values saturate to 0
AsUnsigned(x) == IF x < 0 THEN 0 ELSE x

\* ---------------------------------------------------------------- sizing
\* bitmap_size without the .ceil(): the cast truncates
bitmap_size_floor(items_count, fp_rate) ==
    LET ln2_2 == (LN_2 * LN_2) \div 1000
    IN  AsUnsigned(((0 - 1) * items_count * Ln(fp_rate)) \div ln2_2)

\* bitmap_size that divides by ln 2 instead of (ln 2)^2
bitmap_size_no_square(items_count, fp_rate) ==
    AsUnsigned(CeilDiv((0 - 1) * items_count * Ln(fp_rate), LN_2))

\* fn bitmap_size(items_count, fp_rate) -> usize
bitmap_size(items_count, fp_rate) ==
    LET ln2_2 == (LN_2 * LN_2) \div 1000
    IN  AsUnsigned(CeilDiv((0 - 1) * items_count * Ln(fp_rate), ln2_2))

\* optimal_k without the .ceil(): the cast truncates
optimal_k_floor(fp_rate) ==
    AsUnsigned((0 - Ln(fp_rate)) \div LN_2)

\* fn optimal_k(fp_rate) -> u32
optimal_k_of(fp_rate) ==
    AsUnsigned(CeilDiv(0 - Ln(fp_rate), LN_2))

\* ---------------------------------------------------------------- BitVec
\* BitVec::from_elem(nbits, bit)
from_elem(nbits, bit) == [i \in 1 .. nbits |-> bit]

\* BitVec::len
bv_len(bv) == Len(bv)

\* BitVec::get(i) -> Option<bool>;  .unwrap_or(false) applied by the caller
bv_get_or_false(bv, i) == IF i < Len(bv) THEN bv[i + 1] ELSE FALSE

\* set that assigns the mask instead of or-ing it in: the other bits are lost
bv_set_assign(bv, i, x) == [j \in 1 .. Len(bv) |-> (j = i + 1) /\ x]

\* set that xors the bit in
bv_set_flip(bv, i, x) == [bv EXCEPT ![i + 1] = (@ # x)]

\* BitVec::set(i, x); the caller checks i < len (otherwise set panics)
bv_set(bv, i, x) == [bv EXCEPT ![i + 1] = x]

\* clear with the meaning of Vec::clear: the bits are removed
bv_clear_truncate(bv) == << >>

\* BitVec::clear: every bit becomes false, the length is kept
bv_clear(bv) == [i \in 1 .. Len(bv) |-> FALSE]

\* BitVec::none: no bit is set
bv_none(bv) == \A i \in 1 .. Len(bv) : ~bv[i]

\* the positions of the true bits, and their number
TrueBits(bv) == {i \in 0 .. (Len(bv) - 1) : bv[i + 1]}
CountTrue(bv) == Cardinality(TrueBits(bv))

\* ---------------------------------------------------------------- hashing
\* item.hash(&mut hasher): the hasher state absorbs the item
hash_write(v, item) == (v * (2 * item + 3) + item) % TwoW

\* hasher.finish()
hash_finish(v) == v

\* hash_kernel that feeds the item to the stored hashers instead of clones
hash_kernel_no_clone(hs, item) ==
    LET hasher1 == hash_write(hs[1], item)
        hasher2 == hash_write(hs[2], item)
    IN  [h1 |-> hash_finish(hasher1), h2 |-> hash_finish(hasher2),
         hashers |-> <<hasher1, hasher2>>]

\* fn hash_kernel(&self, item) -> (u64, u64): both stored hashers are cloned,
\* the clones absorb the item and are finished; `hashers` is what the call
\* leaves in self.hashers
hash_kernel(hs, item) ==
    LET hasher1 == hash_write(hs[1], item)
        hasher2 == hash_write(hs[2], item)
    IN  [h1 |-> hash_finish(hasher1), h2 |-> hash_finish(hasher2), hashers |-> hs]

\* the result of get_index when `combined_hash % 0` panics
RemByZero == 0 - 1

\* get_index without the reduction modulo len
get_index_no_mod(h1, h2, k_i, len) ==
    (h1 + ((k_i * h2) % TwoW)) % TwoW

\* get_index computed in unbounded integers, without wraparound
get_index_no_wrap(h1, h2, k_i, len) ==
    IF len = 0 THEN RemByZero ELSE (h1 + (k_i * h2)) % len

\* fn get_index(h1, h2, k_i, len) -> usize
get_index(h1, h2, k_i, len) ==
    LET combined_hash == (h1 + ((k_i * h2) % TwoW)) % TwoW
    IN  IF len = 0 THEN RemByZero ELSE combined_hash % len

\* panic messages
NoPanic == "none"
PanicItemsCount == "items_count must be greater than 0"
PanicFpRate == "fp_rate must be between 0 and 1 (exclusive)"
PanicRemByZero == "attempt to calculate the remainder with a divisor of zero"
PanicIndex == "index out of bounds"

\* ---------------------------------------------------------------- methods
\* the `for k_i in 0..self.optimal_k` loop of insert, from round k_i on
RECURSIVE insert_loop(_, _, _, _, _)
insert_loop(bm, h1, h2, k_i, k) ==
    IF k_i >= k
    THEN [bitmap |-> bm, panic |-> NoPanic]
    ELSE LET index == get_index(h1, h2, k_i, bv_len(bm))
         IN  IF index = RemByZero
             THEN [bitmap |-> bm, panic |-> PanicRemByZero]
             ELSE IF index >= bv_len(bm)
             THEN [bitmap |-> bm, panic |-> PanicIndex]
             ELSE insert_loop(bv_set(bm, index, TRUE), h1, h2, k_i + 1, k)

\* the `for k_i in 0..self.optimal_k` loop of contains, from round k_i on
RECURSIVE contains_loop(_, _, _, _, _)
contains_loop(bm, h1, h2, k_i, k) ==
    IF k_i >= k
    THEN [ret |-> TRUE, panic |-> NoPanic]
    ELSE LET index == get_index(h1, h2, k_i, bv_len(bm))
         IN  IF index = RemByZero
             THEN [ret |-> FALSE, panic |-> PanicRemByZero]
             ELSE IF ~bv_get_or_false(bm, index)
             THEN [ret |-> FALSE, panic |-> NoPanic]
             ELSE contains_loop(bm, h1, h2, k_i + 1, k)

\* insert whose loop starts at round 1
insert_from_round_one(bm, k, hs, item) ==
    LET hk == hash_kernel(hs, item)
        r == insert_loop(bm, hk.h1, hk.h2, 1, k)
    IN  [bitmap |-> r.bitmap, hashers |-> hk.hashers, panic |-> r.panic]

\* insert whose loop runs over 0..=k
insert_extra_round(bm, k, hs, item) ==
    LET hk == hash_kernel(hs, item)
        r == insert_loop(bm, hk.h1, hk.h2, 0, k + 1)
    IN  [bitmap |-> r.bitmap, hashers |-> hk.hashers, panic |-> r.panic]

\* pub fn insert(&mut self, item) on the fields (bm, k, hs)
insert(bm, k, hs, item) ==
    LET hk == hash_kernel(hs, item)
        r == insert_loop(bm, hk.h1, hk.h2, 0, k)
    IN  [bitmap |-> r.bitmap, hashers |-> hk.hashers, panic |-> r.panic]

\* contains whose loop runs over 0..k-1
contains_skip_last(bm, k, hs, item) ==
    LET hk == hash_kernel(hs, item)
        r == contains_loop(bm, hk.h1, hk.h2, 0, k - 1)
    IN  [ret |-> r.ret, hashers |-> hk.hashers, panic |-> r.panic]

\* pub fn contains(&self, item) -> bool on the fields (bm, k, hs)
contains(bm, k, hs, item) ==
    LET hk == hash_kernel(hs, item)
        r == contains_loop(bm, hk.h1, hk.h2, 0, k)
    IN  [ret |-> r.ret, hashers |-> hk.hashers, panic |-> r.panic]

\* clear that leaves the bits as they are
clear_noop(bm) == bm

\* pub fn clear(&mut self)
clear(bm) == bv_clear(bm)

\* pub fn len(&self) -> usize
len(bm) == bv_len(bm)

\* is_empty that asks BitVec::is_empty (no bits at all) instead of none
is_empty_no_bits(bm) == bv_len(bm) = 0

\* pub fn is_empty(&self) -> bool
is_empty(bm) == bv_none(bm)

\* pub fn hash_count(&self) -> u32
hash_count(k) == k

\* the fp_rate condition with the upper end included
FpLe(a, b) == ~a.nan /\ ~b.nan /\ a.milli <= b.milli
FpRateValidInclusive(fp_rate) == FpGt(fp_rate, F64(0)) /\ FpLe(fp_rate, F64(1000))

\* the two assert! conditions of new
ItemsCountValid(items_count) == items_count > 0
FpRateValid(fp_rate) == FpGt(fp_rate, F64(0)) /\ FpLt(fp_rate, F64(1000))

\* the assert! of new that fails on (items_count, fp_rate), NoPanic if none
new_check(items_count, fp_rate) ==
    IF ~ItemsCountValid(items_count) THEN PanicItemsCount
    ELSE IF ~FpRateValid(fp_rate) THEN PanicFpRate
    ELSE NoPanic

\* the fields of the filter new returns; key1, key2 are the keys of the two
\* RandomState::new().build_hasher() calls
new_fields(items_count, fp_rate, key1, key2) ==
    LET optimal_m == bitmap_size(items_count, fp_rate)
    IN  [bitmap |-> from_elem(optimal_m, FALSE),
         optimal_k |-> optimal_k_of(fp_rate),
         hashers |-> <<key1, key2>>]

\* ---------------------------------------------------------------- state
VARIABLES
    status,     \* "uninit": new not called; "ok": a filter exists; "panicked"
    panic,      \* the panic message that ended the program, NoPanic if none
    bitmap,     \* self.bitmap
    optimal_k,  \* self.optimal_k
    hashers,    \* self.hashers
    allocated,  \* BitVec::from_elem has been called
    args,       \* the arguments new was called with
    built,      \* len(), hash_count() and the hashers right after new returned
    inserted,   \* the items inserted since new or since the last clear
    lastOp,     \* the last call, what it returned, and whether it repeats
                \* the call before it (an insert of the same item)
    prev,       \* self.bitmap before the last call
    twin        \* after a clear: a fresh filter of the same m, k and hashers
                \* that receives the same calls

vars ==
    <<status, panic, bitmap, optimal_k, hashers, allocated, args, built,
      inserted, lastOp, prev, twin>>

Call(op, item, retB, retN) ==
    [op |-> op, item |-> item, retB |-> retB, retN |-> retN,
     again |-> op = "insert" /\ lastOp.op = "insert" /\ lastOp.item = item]
StatusAfter(p) == IF p = NoPanic THEN "ok" ELSE "panicked"
TwinAfter(bm, retB, retN) ==
    IF twin.on THEN [on |-> TRUE, bitmap |-> bm, retB |-> retB, retN |-> retN]
    ELSE twin

Init ==
    /\ status = "uninit"
    /\ panic = NoPanic
    /\ bitmap = <<>>
    /\ optimal_k = 0
    /\ hashers = <<0, 0>>
    /\ allocated = FALSE
    /\ args = [items_count |-> 0, fp_rate |-> NaN]
    /\ built = [len |-> 0, hash_count |-> 0, hashers |-> <<0, 0>>]
    /\ inserted = {}
    /\ lastOp = [op |-> "none", item |-> 0, retB |-> FALSE, retN |-> 0,
                 again |-> FALSE]
    /\ prev = <<>>
    /\ twin = [on |-> FALSE, bitmap |-> <<>>, retB |-> FALSE, retN |-> 0]

\* StandardBloomFilter::new(items_count, fp_rate) panics
NewPanics(items_count, fp_rate) ==
    /\ status = "uninit"
    /\ new_check(items_count, fp_rate) # NoPanic
    /\ status' = "panicked"
    /\ panic' = new_check(items_count, fp_rate)
    /\ args' = [items_count |-> items_count, fp_rate |-> fp_rate]
    /\ lastOp' = Call("new", 0, FALSE, 0)
    /\ UNCHANGED <<bitmap, optimal_k, hashers, allocated, built, inserted,
                   prev, twin>>

\* StandardBloomFilter::new(items_count, fp_rate) returns a filter
NewReturns(items_count, fp_rate, key1, key2) ==
    /\ status = "uninit"
    /\ new_check(items_count, fp_rate) = NoPanic
    /\ LET f == new_fields(items_count, fp_rate, key1, key2)
       IN  /\ bitmap' = f.bitmap
           /\ optimal_k' = f.optimal_k
           /\ hashers' = f.hashers
           /\ built' = [len |-> len(f.bitmap),
                        hash_count |-> hash_count(f.optimal_k),
                        hashers |-> f.hashers]
    /\ status' = "ok"
    /\ allocated' = TRUE
    /\ args' = [items_count |-> items_count, fp_rate |-> fp_rate]
    /\ lastOp' = Call("new", 0, FALSE, 0)
    /\ UNCHANGED <<panic, inserted, prev, twin>>

New(items_count, fp_rate) ==
    \/ NewPanics(items_count, fp_rate)
    \/ \E key1, key2 \in U64 : NewReturns(items_count, fp_rate, key1, key2)

\* filter.insert(item)
Insert(item) ==
    /\ status = "ok"
    /\ LET r == insert(bitmap, optimal_k, hashers, item)
           t == insert(twin.bitmap, built.hash_count, built.hashers, item)
       IN  /\ bitmap' = r.bitmap
           /\ hashers' = r.hashers
           /\ panic' = r.panic
           /\ status' = StatusAfter(r.panic)
           /\ twin' = TwinAfter(t.bitmap, FALSE, 0)
    /\ inserted' = inserted \cup {item}
    /\ lastOp' = Call("insert", item, FALSE, 0)
    /\ prev' = bitmap
    /\ UNCHANGED <<optimal_k, allocated, args, built>>

\* filter.contains(item)
Contains(item) ==
    /\ status = "ok"
    /\ LET r == contains(bitmap, optimal_k, hashers, item)
           t == contains(twin.bitmap, built.hash_count, built.hashers, item)
       IN  /\ hashers' = r.hashers
           /\ panic' = r.panic
           /\ status' = StatusAfter(r.panic)
           /\ lastOp' = Call("contains", item, r.ret, 0)
           /\ twin' = TwinAfter(twin.bitmap, t.ret, 0)
    /\ prev' = bitmap
    /\ UNCHANGED <<bitmap, optimal_k, allocated, args, built, inserted>>

\* filter.clear()
Clear ==
    /\ status = "ok"
    /\ bitmap' = clear(bitmap)
    /\ inserted' = {}
    /\ lastOp' = Call("clear", 0, FALSE, 0)
    /\ prev' = bitmap
    /\ twin' = [on |-> TRUE, bitmap |-> from_elem(built.len, FALSE),
                retB |-> FALSE, retN |-> 0]
    /\ UNCHANGED <<status, panic, optimal_k, hashers, allocated, args, built>>

\* filter.len()
LenCall ==
    /\ status = "ok"
    /\ lastOp' = Call("len", 0, FALSE, len(bitmap))
    /\ twin' = TwinAfter(twin.bitmap, FALSE, len(twin.bitmap))
    /\ prev' = bitmap
    /\ UNCHANGED <<status, panic, bitmap, optimal_k, hashers, allocated, args,
                   built, inserted>>

\* filter.is_empty()
IsEmptyCall ==
    /\ status = "ok"
    /\ lastOp' = Call("is_empty", 0, is_empty(bitmap), 0)
    /\ twin' = TwinAfter(twin.bitmap, is_empty(twin.bitmap), 0)
    /\ prev' = bitmap
    /\ UNCHANGED <<status, panic, bitmap, optimal_k, hashers, allocated, args,
                   built, inserted>>

\* filter.hash_count()
HashCountCall ==
    /\ status = "ok"
    /\ lastOp' = Call("hash_count", 0, FALSE, hash_count(optimal_k))
    /\ twin' = TwinAfter(twin.bitmap, FALSE, hash_count(built.hash_count))
    /\ prev' = bitmap
    /\ UNCHANGED <<status, panic, bitmap, optimal_k, hashers, allocated, args,
                   built, inserted>>

Next ==
    \/ \E items_count \in ItemsCounts, fp_rate \in FpRates : New(items_count, fp_rate)
    \/ \E item \in Items : Insert(item)
    \/ \E item \in Items : Contains(item)
    \/ Clear
    \/ LenCall
    \/ IsEmptyCall
    \/ HashCountCall

Spec == Init /\ [][Next]_vars

TypeOK ==
    /\ status \in {"uninit", "ok", "panicked"}
    /\ bitmap \in Seq(BOOLEAN)
    /\ optimal_k \in Nat
    /\ hashers \in U64 \X U64
    /\ inserted \subseteq Items

\* ---------------------------------------------------------------- claims
\* the probe positions of item x in the current filter
Probes(x) ==
    LET hk == hash_kernel(hashers, x)
    IN  {get_index(hk.h1, hk.h2, k_i, len(bitmap)) : k_i \in 0 .. (optimal_k - 1)}

\* C1: no false negatives. An item inserted since the last clear is reported
\* by contains, whatever else was inserted: both for the query the program
\* just made and for every query it could make in the current state.
NoFalseNegatives ==
    /\ (lastOp.op = "contains" /\ lastOp.item \in inserted) => lastOp.retB
    /\ status = "ok" =>
         \A x \in inserted : contains(bitmap, optimal_k, hashers, x).ret

NoFalseNegativesWitness ==
    /\ lastOp.op = "contains"
    /\ lastOp.retB
    /\ lastOp.item \in inserted
    /\ inserted = Items
    /\ len(bitmap) >= 2

\* C2: an empty filter (fresh, or just cleared) reports no item as a member.
EmptyNeverContains ==
    /\ (lastOp.op = "contains" /\ bv_none(bitmap)) => ~lastOp.retB
    /\ (status = "ok" /\ bv_none(bitmap)) =>
         \A x \in Items : ~contains(bitmap, optimal_k, hashers, x).ret

EmptyNeverContainsWitness ==
    /\ lastOp.op = "contains"
    /\ ~lastOp.retB
    /\ bv_none(bitmap)
    /\ twin.on
    /\ optimal_k = 1

\* C3: right after clear() every bit is false, the number of true bits is
\* zero and is_empty() is true.
ClearEmpties ==
    lastOp.op = "clear" =>
        /\ \A i \in 0 .. (len(bitmap) - 1) : ~bv_get_or_false(bitmap, i)
        /\ CountTrue(bitmap) = 0
        /\ is_empty(bitmap)

ClearEmptiesWitness ==
    /\ lastOp.op = "clear"
    /\ CountTrue(prev) >= 2
    /\ len(bitmap) = len(prev)

\* C4: len() and hash_count() keep the values they had when new returned,
\* through every insert, contains and clear.
SizingImmutable ==
    /\ status = "ok" =>
         /\ len(bitmap) = built.len
         /\ hash_count(optimal_k) = built.hash_count
    /\ lastOp.op = "len" => lastOp.retN = built.len
    /\ lastOp.op = "hash_count" => lastOp.retN = built.hash_count

SizingImmutableWitness ==
    /\ lastOp.op = "len"
    /\ lastOp.retN >= 2
    /\ twin.on
    /\ inserted # {}

\* C5: monotonicity. Every step other than a clear() keeps every true bit
\* true, so the number of true bits does not decrease.
Monotone ==
    [][lastOp'.op # "clear" =>
          /\ TrueBits(bitmap) \subseteq TrueBits(bitmap')
          /\ CountTrue(bitmap) <= CountTrue(bitmap')]_vars

MonotoneWitness ==
    /\ lastOp.op = "insert"
    /\ CountTrue(prev) >= 1
    /\ CountTrue(bitmap) > CountTrue(prev)
    /\ TrueBits(prev) \subseteq TrueBits(bitmap)

\* C6: idempotence. An insert(x) that directly follows an insert(x) leaves
\* the bit array as it was, and so would a further insert(x).
InsertIdempotent ==
    /\ lastOp.again => bitmap = prev
    /\ (status = "ok" /\ lastOp.op = "insert") =>
         insert(bitmap, optimal_k, hashers, lastOp.item).bitmap = bitmap

InsertIdempotentWitness ==
    /\ lastOp.again
    /\ bitmap = prev
    /\ CountTrue(bitmap) >= 2

\* C7: new panics exactly when items_count = 0 or fp_rate is not strictly
\* between 0 and 1; then nothing was allocated and there is no filter;
\* otherwise new returns a filter.
ConstructionValidation ==
    LET BadArgs == \/ args.items_count = 0
                   \/ args.fp_rate.nan
                   \/ args.fp_rate.milli <= 0
                   \/ args.fp_rate.milli >= 1000
    IN  lastOp.op = "new" =>
            /\ (panic \in {PanicItemsCount, PanicFpRate}) <=> BadArgs
            /\ BadArgs => (status = "panicked" /\ ~allocated /\ bitmap = <<>>)
            /\ ~BadArgs => (status = "ok" /\ allocated /\ panic = NoPanic)

ConstructionValidationWitness ==
    /\ lastOp.op = "new"
    /\ status = "panicked"
    /\ panic = PanicFpRate
    /\ args.fp_rate = F64(1000)
    /\ args.items_count > 0

\* C8: a constructed filter has len() >= 1 and hash_count() >= 1, in every
\* state from construction on.
SizingPositive ==
    status = "ok" =>
        /\ len(bitmap) >= 1
        /\ hash_count(optimal_k) >= 1
        /\ lastOp.op = "len" => lastOp.retN >= 1
        /\ lastOp.op = "hash_count" => lastOp.retN >= 1

SizingPositiveWitness ==
    /\ status = "ok"
    /\ args.fp_rate = F64(999)
    /\ len(bitmap) = 1
    /\ lastOp.op = "hash_count"
    /\ lastOp.retN = 1

\* C9: no call on a constructed filter panics, every probe index of every
\* item is inside the bit array, and a returned insert has set all k probe
\* bits of its item.
Total ==
    /\ (status = "panicked") => (lastOp.op = "new")
    /\ status = "ok" =>
         /\ panic = NoPanic
         /\ \A x \in Items : \A idx \in Probes(x) :
                idx # RemByZero /\ idx >= 0 /\ idx < len(bitmap)
         /\ lastOp.op = "insert" =>
                \A idx \in Probes(lastOp.item) : bv_get_or_false(bitmap, idx)

TotalWitness ==
    /\ status = "ok"
    /\ lastOp.op = "insert"
    /\ twin.on
    /\ optimal_k >= 2
    /\ Cardinality(Probes(lastOp.item)) >= 2

\* C10: after clear(), the filter and a freshly constructed filter of the
\* same m, k and hashers, given the same calls, hold the same bit array and
\* return the same results.
ClearIsFresh ==
    twin.on =>
        /\ status = "ok"
        /\ twin.bitmap = bitmap
        /\ twin.retB = lastOp.retB
        /\ twin.retN = lastOp.retN

ClearIsFreshWitness ==
    /\ twin.on
    /\ lastOp.op = "contains"
    /\ lastOp.retB
    /\ twin.retB
    /\ CountTrue(twin.bitmap) >= 1

\* C11: contains(x) answers true exactly when each of the k probe positions
\* of x, computed as insert computes them, is true in the bit array.
ContainsIffAllProbes ==
    /\ lastOp.op = "contains" =>
         (lastOp.retB <=>
            \A idx \in Probes(lastOp.item) : bv_get_or_false(bitmap, idx))
    /\ status = "ok" =>
         \A x \in Items :
            contains(bitmap, optimal_k, hashers, x).ret <=>
                (Probes(x) \subseteq TrueBits(bitmap))

ContainsIffAllProbesWitness ==
    /\ lastOp.op = "contains"
    /\ ~lastOp.retB
    /\ \E idx \in Probes(lastOp.item) : bv_get_or_false(bitmap, idx)
    /\ \E idx \in Probes(lastOp.item) : ~bv_get_or_false(bitmap, idx)

InsertExactEffect ==
    lastOp.op = "insert" =>
        /\ status = "ok"
        /\ TrueBits(bitmap) = TrueBits(prev) \cup Probes(lastOp.item)
        /\ Cardinality(TrueBits(bitmap) \ TrueBits(prev)) <= optimal_k
        /\ len(bitmap) = len(prev)
        /\ len(bitmap) = built.len
        /\ optimal_k = built.hash_count
        /\ hashers = built.hashers
        /\ ~lastOp.retB /\ lastOp.retN = 0

InsertExactEffectWitness ==
    /\ lastOp.op = "insert"
    /\ CountTrue(prev) >= 1
    /\ Cardinality(Probes(lastOp.item)) >= 2
    /\ Probes(lastOp.item) \cap TrueBits(prev) # {}
    /\ Probes(lastOp.item) \ TrueBits(prev) # {}

\* C14: the true bits are exactly the probe positions of the items inserted
\* since the last clear (or since new); so contains(y) is true for an item y
\* not inserted only if every probe position of y is a probe position of an
\* inserted item.
TrueBitsAreProbes ==
    status = "ok" =>
        LET covered == UNION {Probes(x) : x \in inserted}
        IN  /\ TrueBits(bitmap) = covered
            /\ \A y \in Items \ inserted :
                  contains(bitmap, optimal_k, hashers, y).ret =>
                      Probes(y) \subseteq covered
            /\ (lastOp.op = "contains" /\ lastOp.retB) =>
                  Probes(lastOp.item) \subseteq covered

TrueBitsAreProbesWitness ==
    /\ status = "ok"
    /\ lastOp.op = "contains"
    /\ lastOp.retB
    /\ lastOp.item \notin inserted
    /\ inserted # {}
    /\ len(bitmap) >= 2

\* C15: the stored hashers never change, so the base hashes (h1, h2) of an
\* item, and its probe positions, are the same in every insert and contains
\* call, whatever was called in between.
HashersFixed ==
    status = "ok" =>
        /\ hashers = built.hashers
        /\ \A x \in Items :
              LET now == hash_kernel(hashers, x)
                  then == hash_kernel(built.hashers, x)
              IN  /\ now.h1 = then.h1 /\ now.h2 = then.h2
                  /\ now.hashers = built.hashers
        /\ \A x \in inserted : Probes(x) \subseteq TrueBits(bitmap)

HashersFixedWitness ==
    /\ status = "ok"
    /\ twin.on
    /\ lastOp.op = "contains"
    /\ lastOp.item \in inserted
    /\ lastOp.retB
    /\ hashers = built.hashers
    /\ hashers[1] # hashers[2]

\* C16: the probe index is ((h1 + (i * h2 mod 2^w)) mod 2^w) mod m in wrapping
\* arithmetic of the word width w: for all words h1, h2, every round i < k
\* and the m of every filter, as built and as cleared, it is defined and lies
\* in 0 .. m - 1, and it is the index insert sets.
ProbeIndexWraps ==
    status = "ok" =>
        /\ lastOp.op \in {"new", "clear"} =>
              \A h1 \in U64 : \A h2 \in U64 : \A i \in 0 .. (optimal_k - 1) :
                 LET index == get_index(h1, h2, i, len(bitmap))
                 IN  /\ index # RemByZero
                     /\ index >= 0 /\ index < len(bitmap)
                     /\ index = ((h1 + ((i * h2) % TwoW)) % TwoW) % len(bitmap)
        /\ lastOp.op = "insert" =>
              LET hk == hash_kernel(hashers, lastOp.item)
              IN  \A i \in 0 .. (optimal_k - 1) :
                     bv_get_or_false(bitmap,
                        ((hk.h1 + ((i * hk.h2) % TwoW)) % TwoW) % len(bitmap))

ProbeIndexWrapsWitness ==
    /\ status = "ok"
    /\ lastOp.op = "insert"
    /\ LET hk == hash_kernel(hashers, lastOp.item)
       IN  \E i \in 0 .. (optimal_k - 1) :
              /\ hk.h1 + (i * hk.h2) >= TwoW
              /\ (hk.h1 + (i * hk.h2)) % len(bitmap)
                   # get_index(hk.h1, hk.h2, i, len(bitmap))
              /\ ~bv_get_or_false(bitmap, (hk.h1 + (i * hk.h2)) % len(bitmap))

\* C17: is_empty() is true exactly when no bit is true: true on a new filter
\* and right after clear(), false once an item was inserted and no clear()
\* followed.
IsEmptyIffNoBits ==
    /\ lastOp.op = "is_empty" =>
         /\ lastOp.retB <=> (CountTrue(bitmap) = 0)
         /\ lastOp.retB <=> (inserted = {})
    /\ status = "ok" =>
         /\ is_empty(bitmap) <=> (TrueBits(bitmap) = {})
         /\ lastOp.op \in {"new", "clear"} => is_empty(bitmap)
         /\ inserted # {} => ~is_empty(bitmap)

IsEmptyIffNoBitsWitness ==
    /\ lastOp.op = "is_empty"
    /\ ~lastOp.retB
    /\ inserted # {}
    /\ twin.on

\* C18: contains, len, is_empty and hash_count change neither the bit array
\* nor m, k or the hashers, and the same query repeated at once returns the
\* same answer.
Queries == {"contains", "len", "is_empty", "hash_count"}

QueriesReadOnly ==
    [][lastOp'.op \in Queries =>
          /\ bitmap' = bitmap
          /\ optimal_k' = optimal_k
          /\ hashers' = hashers
          /\ status' = status
          /\ (lastOp.op = lastOp'.op /\ lastOp.item = lastOp'.item) =>
                (lastOp'.retB = lastOp.retB /\ lastOp'.retN = lastOp.retN)]_vars

QueriesReadOnlyWitness ==
    /\ lastOp.op = "contains"
    /\ lastOp.retB
    /\ bitmap = prev
    /\ CountTrue(bitmap) >= 2
    /\ hashers = built.hashers

\* C19: inserts commute and repeat without effect: the bit array after
\* clear-free inserts is the one obtained by inserting each inserted item
\* once, in any order, into an all-false array; and from every state
\* insert(x); insert(y) and insert(y); insert(x) give the same bit array.
RECURSIVE InsertAll(_, _)
InsertAll(bm, S) ==
    IF S = {} THEN bm
    ELSE LET x == CHOOSE y \in S : TRUE
         IN  InsertAll(insert(bm, optimal_k, hashers, x).bitmap, S \ {x})

InsertsCommute ==
    status = "ok" =>
        /\ bitmap = InsertAll(from_elem(len(bitmap), FALSE), inserted)
        /\ \A x \in Items : \A y \in {z \in Items : z > x} :
              insert(insert(bitmap, optimal_k, hashers, x).bitmap,
                     optimal_k, hashers, y).bitmap
                = insert(insert(bitmap, optimal_k, hashers, y).bitmap,
                         optimal_k, hashers, x).bitmap

InsertsCommuteWitness ==
    /\ status = "ok"
    /\ lastOp.again
    /\ Cardinality(inserted) >= 2
    /\ \E x \in inserted : \E y \in inserted :
          /\ Probes(x) \cap Probes(y) # {}
          /\ Probes(x) \ Probes(y) # {}
          /\ Probes(y) \ Probes(x) # {}

====
